---- MODULE Spec2Model ----
(***************************************************************************)
(* A model of the IntuneBrew upload pipeline (src/app_upload.py, driven as *)
(* in src/upload_example.py), of the catalog sync (src/github_sync.py) and *)
(* of the version comparison of the dashboard (src/app.py).                *)
(*                                                                         *)
(* The specifications:                                                     *)
(*   SpecEnc     encrypt_file at byte level, on small files, followed by   *)
(*               the file-entry body upload_file builds from the two files;*)
(*   SpecCreate  a caller that calls create_app several times in a row;    *)
(*   Spec        one run of the pipeline create_app, encrypt_file,         *)
(*               upload_file, finalize_upload against a backend, with the  *)
(*               files represented by their sizes (a 10 MiB file fits).    *)
(*   SpecLive    upload_file against a backend that answers in the end;    *)
(*   SpecIds     the block identifiers of upload_file on their own;        *)
(*   SpecSync    GitHubSync.check_for_updates against a changing repository;*)
(*   SpecVersions  is_newer_version on pairs of version strings.           *)
(* SpecEnc and Spec share PaddingSize, the padding rule of encrypt_file.    *)
(*                                                                         *)
(* Bytes are integers 0..255, byte strings are sequences of bytes.  AES and*)
(* SHA-256 cannot be computed here: the AES block permutation is a keyed   *)
(* bijection on 16-byte blocks (CBC chaining is modelled as it is), and    *)
(* HMAC-SHA-256 and SHA-256 are keyed / unkeyed 32-byte checksums that     *)
(* depend on every byte and its position.                                  *)
(***************************************************************************)
EXTENDS Integers, Sequences, FiniteSets, TLC

VARIABLES
    \* ---- encrypt_file at byte level (SpecEnc)
    epc,              \* position: "start", "encrypted", "entry"
    plainFile,        \* content of file_path
    binFile,          \* content of file_path + ".bin"
    file_data,        \* local file_data after the padding step
    encryption_info,  \* the manifest encrypt_file returns
    file_body,        \* the file entry upload_file builds
    \* ---- the backend (Spec)
    apps,             \* the app records, apps[i].id = i
    cvCount,          \* content versions created so far
    \* ---- the caller (src/upload_example.py)
    pc,               \* position in the pipeline
    stage,            \* what the caller holds: "none", "created", ...
    calls,            \* create_app invocations so far
    app,              \* the record create_app returned
    \* ---- create_app
    app_info, response, attempt, existing_app,
    caResult,         \* "none", "running", "returned", "raised"
    posts, patches, n503,   \* calls issued / 503s received in this invocation
    clean,            \* no backend call of this invocation failed
    before,           \* records with the display name when the invocation began
    prevCall,         \* the same facts about the invocation before this one
    slept,            \* the last time.sleep(delay) of the create loop
    \* ---- the files of the pipeline, by size, and the manifest
    plainSize,        \* size of file_path
    binSize,          \* size of file_path + ".bin", -1: no such file
    manifest,         \* what encrypt_file returned to the caller
    \* ---- upload_file
    content_version, content_file, fileEntry, file_uri, ufAttempt, offset,
    block_num, block_len, retry, blocks,
    uploaded,         \* the blocks stored by a successful PUT, in order
    blockList,        \* the block ids of the block-list call
    listCalls, commitCalls,   \* block-list / commit calls issued
    commitInfo,       \* the fileEncryptionInfo of the commit call
    ufResult,         \* "none", "running", "returned", "raised"
    content_version_id,       \* what upload_file returned to the caller
    status,           \* the body of the last status read
    reads,            \* status reads issued by the polling loop in progress
    readyUri,         \* the URI of the read that reported the target ready
    blockPuts,        \* PUTs issued for the block being uploaded
    inFlight,         \* PUTs sent and not yet answered
    ufError,          \* why upload_file raised
    \* ---- finalize_upload
    current_app, fuStatus,
    patchedId,        \* the record the finalize PATCH changed
    logoCalls,        \* logo PATCHes issued
    fuResult,         \* "none", "running", "returned", "raised"
    \* ---- the uploader object (IntuneUploader.__init__)
    access_token,     \* the credential given at construction
    headers,          \* self.headers
    sent,             \* per target, the credentials the requests carried
    \* ---- block identifiers on their own (SpecIds)
    idx,              \* two block indexes
    ids,              \* the identifiers made for them
    putIds,           \* the identifier each PUT of the first one carried
    \* ---- the catalog sync (src/github_sync.py, SpecSync)
    repo,             \* the remote repository: its latest commit and app list
    last_check_file,  \* the content of last_check.json
    files,            \* the local files the sync has saved
    added_apps,       \* what the last check_for_updates returned
    lastCheck,        \* how the last check ended, and the state it started from
    checks,           \* checks made
    \* ---- the version comparison (src/app.py, SpecVersions)
    github_version, intune_version,
    newer             \* the answers for (github, intune) and (intune, github)

encVars == <<epc, plainFile, binFile, file_data, encryption_info, file_body>>
backendVars == <<apps, cvCount>>
callerVars == <<pc, stage, calls, app>>
caVars == <<app_info, response, attempt, existing_app, caResult,
            posts, patches, n503, clean, before, prevCall, slept>>

fileVars == <<plainSize, binSize, manifest>>
ufVars == <<content_version, content_file, fileEntry, file_uri, ufAttempt,
            offset, block_num, block_len, retry, blocks, uploaded, blockList,
            listCalls, commitCalls, commitInfo, ufResult, content_version_id,
            status, reads, readyUri, blockPuts, inFlight, ufError>>
ufHist == <<status, reads, readyUri, blockPuts, inFlight, ufError>>
fuVars == <<current_app, fuStatus, patchedId, logoCalls, fuResult>>

authVars == <<access_token, headers, sent>>

idVars == <<idx, ids, putIds>>

syncVars == <<repo, last_check_file, files, added_apps, lastCheck, checks>>

versionVars == <<github_version, intune_version, newer>>

\* what the upload pipeline never touches
otherVars == <<idVars, syncVars, versionVars>>

pipelineVars == <<encVars, backendVars, callerVars, caVars, fileVars, ufVars,
                  fuVars, authVars>>

vars == <<pipelineVars, otherVars>>

-----------------------------------------------------------------------------
(* Bounds of the model *)

MaxLen == 33          \* longest plaintext of SpecEnc, in bytes
MaxCalls == 2         \* create_app invocations in one behaviour
MaxPreexisting == 2   \* records the backend holds at the start
MaxChecks == 3        \* check_for_updates invocations in one behaviour
MaxCommits == 3       \* commits the repository receives in one behaviour

(* Program constants *)

AesBlock == 16        \* block_size of encrypt_file
MacLen == 32          \* the HMAC placeholder, bytes(32)
KeyLen == 32          \* os.urandom(32), both keys
IvLen == 16           \* os.urandom(16)
max_retries == 5      \* create_app: attempts of the create POST
base_delay == 10      \* create_app: the first backoff, in seconds
max_delay == 60       \* create_app: the longest backoff, in seconds
max_attempts == 60    \* upload_file: status reads of each polling loop
block_retries == 3    \* upload_file: max_retries, attempts of one block

-----------------------------------------------------------------------------
(* The uploader object and the headers of its requests *)

Tokens == {"tokenA", "tokenB"}

\* line 16: "Authorization": f"Bearer {access_token}"
Bearer(token) == <<"Bearer", token>>

\* lines 15-18: self.headers
InitHeaders(token) ==
    [Authorization |-> Bearer(token), ContentType |-> "application/json"]

\* a slip: the requests to the backend go out without self.headers
GraphHeaders_Anonymous(h) == [ContentType |-> "application/json"]

\* headers=self.headers, on every request to the backend
GraphHeaders(h) == h

\* lines 334-338: the headers of a block PUT
BlockHeaders ==
    [xmsblobtype |-> "BlockBlob", xmsversion |-> "2021-08-06",
     ContentLength |-> "len"]

\* lines 375-377: the headers of the block-list PUT
BlockListHeaders == [xmsversion |-> "2017-04-17"]

\* the Authorization header of a request, empty when it has none
NoCredential == <<>>
Credential(h) ==
    IF "Authorization" \in DOMAIN h THEN h.Authorization ELSE NoCredential

\* a request with headers h goes to the backend or to the transfer target
Call(target, h) ==
    /\ sent' = sent \cup {[target |-> target, credential |-> Credential(h)]}
    /\ UNCHANGED <<access_token, headers>>

\* a step that sends no request
NoCall == UNCHANGED authVars

-----------------------------------------------------------------------------
(* Byte strings *)

RECURSIVE XorBits(_, _, _)
XorBits(a, b, n) ==
    IF n = 0 THEN 0
    ELSE (((a % 2) + (b % 2)) % 2) + 2 * XorBits(a \div 2, b \div 2, n - 1)

Xor8(a, b) == XorBits(a, b, 8)

Take(s, n) == SubSeq(s, 1, n)
Drop(s, n) == SubSeq(s, n + 1, Len(s))

\* bytes([v] * n)
Repeat(v, n) == [i \in 1..n |-> v]

\* f.write(new) at offset 0 of a file opened 'r+b': overwrites, never truncates
OverwriteStart(old, new) ==
    [i \in 1..(IF Len(new) > Len(old) THEN Len(new) ELSE Len(old)) |->
        IF i <= Len(new) THEN new[i] ELSE old[i]]

(* base64.b64encode: three bytes to four symbols 0..63, 64 is the '=' sign *)
RECURSIVE b64encode(_)
b64encode(s) ==
    IF Len(s) = 0 THEN <<>>
    ELSE IF Len(s) = 1 THEN
        <<s[1] \div 4, (s[1] % 4) * 16, 64, 64>>
    ELSE IF Len(s) = 2 THEN
        <<s[1] \div 4, ((s[1] % 4) * 16) + (s[2] \div 16), (s[2] % 16) * 4, 64>>
    ELSE
        <<s[1] \div 4, ((s[1] % 4) * 16) + (s[2] \div 16),
          ((s[2] % 16) * 4) + (s[3] \div 64), s[3] % 64>> \o b64encode(Drop(s, 3))

-----------------------------------------------------------------------------
(* The primitives of the cryptography package, abstracted *)

\* the byte strings os.urandom(n) may return, one per seed
Seeds == {5, 131}
urandom(seed, n) == [i \in 1..n |-> ((seed * i) + 11) % 256]

\* the AES block permutation under a 32-byte key: a bijection on 16-byte blocks
AesRot(j) == (j % AesBlock) + 1
AesEncryptBlock(key, x) ==
    [j \in 1..AesBlock |-> (x[AesRot(j)] + key[j] + key[j + AesBlock]) % 256]

\* modes.CBC: each plaintext block is xored with the previous ciphertext block
\* (the IV for the first) and then encrypted; update() + finalize() on a
\* whole number of blocks returns as many bytes as it was given
RECURSIVE CbcEncrypt(_, _, _)
CbcEncrypt(key, prev, data) ==
    IF Len(data) < AesBlock THEN <<>>
    ELSE LET x == [j \in 1..AesBlock |-> Xor8(data[j], prev[j])]
             c == AesEncryptBlock(key, x)
         IN  c \o CbcEncrypt(key, c, Drop(data, AesBlock))

\* a checksum of s[lo..hi] in which every byte counts with its position
RECURSIVE Mix(_, _, _)
Mix(s, lo, hi) ==
    IF lo > hi THEN 0
    ELSE IF lo = hi THEN (((lo * 7) + 3) * (s[lo] + 1)) % 65521
    ELSE LET mid == (lo + hi) \div 2
         IN  (Mix(s, lo, mid) + Mix(s, mid + 1, hi)) % 65521

Digest32(h) ==
    [j \in 1..MacLen |->
        IF j = 1 THEN h % 256 ELSE IF j = 2 THEN h \div 256 ELSE (h * j) % 256]

\* hashes.Hash(hashes.SHA256()) over data
Sha256(data) == Digest32((Mix(data, 1, Len(data)) + Len(data) + 1) % 65521)

\* hmac.HMAC(key, hashes.SHA256()) over data
HmacSha256(key, data) ==
    Digest32(((Mix(key, 1, Len(key)) * 3) + Mix(data, 1, Len(data)) + Len(data)) % 65521)

-----------------------------------------------------------------------------
(* encrypt_file *)

\* lines 211-215: the number of bytes appended to a plaintext of data_size bytes
PaddingSize(data_size) ==
    IF data_size % AesBlock # 0 THEN AesBlock - (data_size % AesBlock) ELSE 0

\* file_data after the padding step
PadData(data) ==
    data \o Repeat(PaddingSize(Len(data)), PaddingSize(Len(data)))

\* a slip: the IV is not written to the file
WritePlaceholderFile_NoIv(iv, encrypted_data) ==
    Repeat(0, MacLen) \o encrypted_data

\* lines 223-226: placeholder, IV, ciphertext
WritePlaceholderFile(iv, encrypted_data) ==
    Repeat(0, MacLen) \o iv \o encrypted_data

\* a slip: the HMAC covers the ciphertext only
DataForHmac_SkipIv(file) == Drop(file, MacLen + IvLen)

\* lines 229-231: f.seek(32); f.read()
DataForHmac(file) == Drop(file, MacLen)

\* lines 240-248
Manifest(aes_key, hmac_key, iv, mac, file_digest) ==
    [encryptionKey |-> b64encode(aes_key),
     macKey |-> b64encode(hmac_key),
     initializationVector |-> b64encode(iv),
     mac |-> b64encode(mac),
     profileIdentifier |-> "ProfileVersion1",
     fileDigest |-> b64encode(file_digest),
     fileDigestAlgorithm |-> "SHA256"]

NoManifest == [profileIdentifier |-> "none"]
NoBody == [name |-> "none"]

\* the plaintexts of SpecEnc: every length up to MaxLen, bytes that differ by
\* position, and a last byte that is or is not a plausible padding count
LastBytes == {0, 1, 16, 255}
Plaintexts ==
    {<<>>} \cup
    { [i \in 1..n |-> IF i = n THEN b ELSE (40 + i) % 256] :
        n \in 1..MaxLen, b \in LastBytes }

encrypt_file_bytes ==
    /\ UNCHANGED otherVars
    /\ NoCall
    /\ epc = "start"
    /\ \E ks \in Seeds, hs \in Seeds, vs \in Seeds :
        LET aes_key == urandom(ks, KeyLen)
            hmac_key == urandom(hs + 1, KeyLen)
            iv == urandom(vs + 2, IvLen)
            file_digest == Sha256(plainFile)
            padded == PadData(plainFile)
            encrypted_data == CbcEncrypt(aes_key, iv, padded)
            placeholder == WritePlaceholderFile(iv, encrypted_data)
            mac == HmacSha256(hmac_key, DataForHmac(placeholder))
        IN  /\ file_data' = padded
            /\ binFile' = OverwriteStart(placeholder, mac)
            /\ encryption_info' = Manifest(aes_key, hmac_key, iv, mac, file_digest)
    /\ epc' = "encrypted"
    /\ UNCHANGED <<plainFile, file_body, backendVars, callerVars, caVars,
                   fileVars, ufVars, fuVars>>

\* upload_file lines 261-271: the file entry, from the sizes of the two files
FileBody(file_size, encrypted_size) ==
    [name |-> "file", size |-> file_size, sizeEncrypted |-> encrypted_size,
     isDependency |-> FALSE]

build_file_body ==
    /\ UNCHANGED otherVars
    /\ NoCall
    /\ epc = "encrypted"
    /\ file_body' = FileBody(Len(plainFile), Len(binFile))
    /\ epc' = "entry"
    /\ UNCHANGED <<plainFile, binFile, file_data, encryption_info,
                   backendVars, callerVars, caVars, fileVars, ufVars, fuVars>>

-----------------------------------------------------------------------------
(* The backend: app records *)

Names == {"Firefox", "Slack"}
\* the version the caller publishes; the records already there carry OldVersion
NewVersion == 2
OldVersion == 1

Rec(id, name, version, committed) ==
    [id |-> id, displayName |-> name, versionNumber |-> version,
     committedContentVersion |-> committed]

NoApp == Rec(0, "", 0, 0)

\* what the backend may hold before the first call: records with one name
InitialBackends ==
    { [i \in 1..n |-> Rec(i, "Firefox", OldVersion, 0)] : n \in 0..MaxPreexisting }

\* a slip: the filter matches nothing
Lookup_Nothing(name) == <<>>

\* GET mobileApps?$filter=... displayName eq '<name>': the matching records
Lookup(name) == SelectSeq(apps, LAMBDA r : r.displayName = name)

\* the number of records the backend holds under a display name
CountNamed(name) ==
    Cardinality({i \in 1..Len(apps) : apps[i].displayName = name})

\* PATCH mobileApps/{id} with the update payload of create_app (lines 50-74)
ApplyUpdate(id, info) ==
    [apps EXCEPT ![id].displayName = info.name,
                 ![id].versionNumber = info.version]

\* POST mobileApps with the create payload (lines 93-117): a new record
NewRecord(info) == Rec(Len(apps) + 1, info.name, info.version, 0)

-----------------------------------------------------------------------------
(* Local variables of a function do not outlive it: each is put back to its *)
(* initial value when the caller moves on.                                  *)

NoEntry == [size |-> -1, sizeEncrypted |-> -1]
NoSeed == 0

ResetCa ==
    /\ app_info' = [name |-> "", version |-> 0, updateExisting |-> FALSE]
    /\ response' = [src |-> "unbound", ok |-> FALSE, status |-> 0, id |-> 0]
    /\ attempt' = 0
    /\ existing_app' = Rec(0, "", 0, 0)
    /\ caResult' = "none"
    /\ posts' = 0 /\ patches' = 0 /\ n503' = 0
    /\ clean' = TRUE
    /\ before' = 0
    /\ prevCall' = [info |-> [name |-> "", version |-> 0, updateExisting |-> FALSE],
                    clean |-> FALSE, before |-> 0]
    /\ slept' = [seconds |-> 0, attempt |-> -1, header |-> <<>>]

ResetFiles ==
    /\ plainSize' = 0
    /\ binSize' = -1
    /\ manifest' = NoSeed

ResetUfLocals ==
    /\ content_file' = 0
    /\ fileEntry' = NoEntry
    /\ file_uri' = ""
    /\ ufAttempt' = 0
    /\ offset' = 0
    /\ block_num' = 0
    /\ block_len' = 0
    /\ retry' = 0
    /\ blocks' = <<>>
    /\ uploaded' = <<>>
    /\ blockList' = <<>>
    /\ listCalls' = 0
    /\ commitCalls' = 0
    /\ commitInfo' = NoSeed
    /\ status' = [uploadState |-> "", azureStorageUri |-> ""]
    /\ reads' = 0
    /\ readyUri' = ""
    /\ blockPuts' = 0
    /\ inFlight' = {}

ResetUf ==
    /\ ResetUfLocals
    /\ ufError' = "none"
    /\ content_version' = 0
    /\ ufResult' = "none"
    /\ content_version_id' = 0

ResetFu ==
    /\ current_app' = Rec(0, "", 0, 0)
    /\ fuStatus' = 0
    /\ patchedId' = 0
    /\ logoCalls' = 0
    /\ fuResult' = "none"

-----------------------------------------------------------------------------
(* create_app *)

AppInfos ==
    [name : Names, version : {NewVersion}, updateExisting : BOOLEAN]
NoInfo == [name |-> "", version |-> 0, updateExisting |-> FALSE]

\* the local variable response: which call set it, response.ok, the status
\* code, and the id field of the JSON body (0: the body has no id field)
Resp(src, ok, code, id) == [src |-> src, ok |-> ok, status |-> code, id |-> id]
Unbound == Resp("unbound", FALSE, 0, 0)

NoPrev == [info |-> NoInfo, clean |-> FALSE, before |-> 0]

\* a slip: one attempt too many
LoopContinues_OneMore(n) == n <= max_retries

\* line 127: for attempt in range(max_retries)
LoopContinues(n) == n < max_retries

Min(a, b) == IF a < b THEN a ELSE b

\* time.sleep(delay): the seconds, the attempt it followed, and the
\* Retry-After value it was taken from (empty: none)
Sleep(seconds, k, ra) == [seconds |-> seconds, attempt |-> k, header |-> ra]
NoSleep == Sleep(0, -1, <<>>)

\* the Retry-After header of a 503, as ASCII codes: absent, "1", "60", "120",
\* and a date, "Wed"
RetryAfters == {<<>>, <<49>>, <<54, 48>>, <<49, 50, 48>>, <<87, 101, 100>>}

\* random.uniform(0, 5), in whole seconds
Jitters == {0, 3, 5}

\* int(text) for an unsigned decimal text; -1: ValueError
RECURSIVE ParseInt(_)
ParseInt(text) ==
    IF text = <<>> THEN -1
    ELSE LET last == text[Len(text)]
             init == SubSeq(text, 1, Len(text) - 1) IN
         IF last \notin 48..57 THEN -1
         ELSE IF init = <<>> THEN last - 48
         ELSE IF ParseInt(init) = -1 THEN -1
         ELSE (10 * ParseInt(init)) + (last - 48)

\* lines 166 and 173: min(base_delay * (2 ** attempt), max_delay)
Backoff(k) == Min(base_delay * (2 ^ k), max_delay)

\* lines 142-147: the delay after a 503 on attempt k
DelayAfter503(ra, k, jitter) ==
    IF ra # <<>> THEN ParseInt(ra)
    ELSE Min((base_delay * (2 ^ k)) + jitter, max_delay)

\* the failure statuses the backend answers a create POST with
FailureStatuses == {400, 500, 503}

\* a slip: every server error is retried
Retryable_ServerErrors(code) == code >= 500

\* line 140: if response.status_code == 503
Retryable(code) == code = 503

\* a slip: the body is taken to have an id
HasId_Always(resp) == TRUE

\* line 185: 'id' in result
HasId(resp) == resp.id # 0

\* line 183: result = response.json(), the record with the id of the body
Body(resp) == IF resp.id \in 1..Len(apps) THEN apps[resp.id] ELSE NoApp

\* an exception leaves create_app
caRaise ==
    /\ pc' = "failed"
    /\ caResult' = "raised"
    /\ UNCHANGED <<stage, app>>

\* line 20: the caller calls create_app(app_info)
create_app_call ==
    /\ UNCHANGED otherVars
    /\ NoCall
    /\ \/ pc \in {"start", "done", "failed"}
       \/ pc = "idle" /\ stage = "created"
    /\ calls < MaxCalls
    /\ calls' = calls + 1
    /\ \E info \in AppInfos :
        /\ app_info' = info
        /\ before' = CountNamed(info.name)
        /\ pc' = IF info.updateExisting THEN "ca_lookup" ELSE "ca_post"
    /\ prevCall' = IF caResult = "returned" /\ pc = "idle"
               THEN [info |-> app_info, clean |-> clean, before |-> before]
               ELSE NoPrev
    /\ response' = Unbound
    /\ attempt' = 0
    /\ existing_app' = NoApp
    /\ caResult' = "running"
    /\ posts' = 0 /\ patches' = 0 /\ n503' = 0
    /\ slept' = NoSleep
    /\ clean' = TRUE
    /\ stage' = "none"
    /\ app' = NoApp
    /\ ResetFiles /\ ResetUf /\ ResetFu
    /\ UNCHANGED <<encVars, backendVars>>

\* lines 35-47: the lookup by display name
ca_lookup ==
    /\ UNCHANGED <<otherVars, slept>>
    /\ Call("backend", GraphHeaders(headers))
    /\ pc = "ca_lookup"
    /\ \/ \* response.ok and a match: existing_apps[0]
          /\ Lookup(app_info.name) # <<>>
          /\ response' = Resp("lookup", TRUE, 200, 0)
          /\ existing_app' = Lookup(app_info.name)[1]
          /\ pc' = "ca_patch"
          /\ UNCHANGED <<clean, caResult>>
       \/ \* response.ok and no match
          /\ Lookup(app_info.name) = <<>>
          /\ response' = Resp("lookup", TRUE, 200, 0)
          /\ pc' = "ca_post"
          /\ UNCHANGED <<existing_app, clean, caResult>>
       \/ \* the lookup is rejected
          /\ response' = Resp("lookup", FALSE, 400, 0)
          /\ clean' = FALSE
          /\ pc' = "ca_post"
          /\ UNCHANGED <<existing_app, caResult>>
       \/ \* the request raises (nothing catches it here)
          /\ clean' = FALSE
          /\ pc' = "failed"
          /\ caResult' = "raised"
          /\ UNCHANGED <<response, existing_app>>
    /\ UNCHANGED <<fileVars, ufVars, fuVars>>
    /\ UNCHANGED <<encVars, backendVars, stage, calls, app, app_info, attempt,
                   posts, patches, n503, before, prevCall>>

\* lines 76-90: the update of the matched record
ca_patch ==
    /\ UNCHANGED <<otherVars, slept>>
    /\ Call("backend", GraphHeaders(headers))
    /\ pc = "ca_patch"
    /\ patches' = patches + 1
    /\ \/ \* response.ok: return existing_app
          /\ apps' = ApplyUpdate(existing_app.id, app_info)
          /\ response' = Resp("patch", TRUE, 204, 0)
          /\ app' = existing_app
          /\ stage' = "created"
          /\ caResult' = "returned"
          /\ pc' = "idle"
          /\ UNCHANGED clean
       \/ \* the update is rejected: fall through to the create
          /\ response' = Resp("patch", FALSE, 400, 0)
          /\ clean' = FALSE
          /\ pc' = "ca_post"
          /\ UNCHANGED <<apps, app, stage, caResult>>
       \/ \* the request raises (nothing catches it here)
          /\ clean' = FALSE
          /\ caRaise
          /\ UNCHANGED <<apps, response>>
    /\ UNCHANGED <<fileVars, ufVars, fuVars>>
    /\ UNCHANGED <<encVars, cvCount, calls, app_info, attempt,
                   existing_app, posts, n503, before, prevCall>>

\* lines 127-177: one attempt of the create POST
ca_post ==
    /\ UNCHANGED otherVars
    /\ Call("backend", GraphHeaders(headers))
    /\ pc = "ca_post"
    /\ LoopContinues(attempt)
    /\ posts' = posts + 1
    /\ \/ \* response.ok, the body is the new record: break
          /\ apps' = Append(apps, NewRecord(app_info))
          /\ response' = Resp("post", TRUE, 201, Len(apps) + 1)
          /\ pc' = "ca_after"
          /\ UNCHANGED <<attempt, n503, clean, caResult, stage, app, slept>>
       \/ \* response.ok, the body has no id field: break
          /\ apps' = Append(apps, NewRecord(app_info))
          /\ response' = Resp("post", TRUE, 201, 0)
          /\ clean' = FALSE
          /\ pc' = "ca_after"
          /\ UNCHANGED <<attempt, n503, caResult, stage, app, slept>>
       \/ \* a failure status: 503 sleeps and continues, any other raises
          \E st \in FailureStatuses :
            /\ response' = Resp("post", FALSE, st, 0)
            /\ clean' = FALSE
            /\ IF Retryable(st)
               THEN \E ra \in RetryAfters, jitter \in Jitters :
                    /\ n503' = n503 + 1
                    /\ IF DelayAfter503(ra, attempt, jitter) = -1
                       THEN \* int(retry_after) raises ValueError
                            /\ caRaise
                            /\ UNCHANGED <<attempt, slept>>
                       ELSE \* sleep, continue
                            /\ slept' = Sleep(DelayAfter503(ra, attempt,
                                                           jitter),
                                              attempt, ra)
                            /\ attempt' = attempt + 1
                            /\ pc' = IF LoopContinues(attempt + 1)
                                     THEN "ca_post" ELSE "ca_after"
                            /\ UNCHANGED <<caResult, stage, app>>
               ELSE /\ caRaise
                    /\ UNCHANGED <<attempt, n503, slept>>
            /\ UNCHANGED apps
       \/ \* requests.exceptions.Timeout: response keeps its value, sleep,
          \* continue
          /\ slept' = Sleep(Backoff(attempt), attempt, <<>>)
          /\ attempt' = attempt + 1
          /\ clean' = FALSE
          /\ pc' = IF LoopContinues(attempt + 1) THEN "ca_post" ELSE "ca_after"
          /\ UNCHANGED <<apps, response, n503, caResult, stage, app>>
       \/ \* another RequestException, not on the last attempt: continue
          /\ attempt < max_retries - 1
          /\ slept' = Sleep(Backoff(attempt), attempt, <<>>)
          /\ attempt' = attempt + 1
          /\ clean' = FALSE
          /\ pc' = "ca_post"
          /\ UNCHANGED <<apps, response, n503, caResult, stage, app>>
       \/ \* another RequestException on the last attempt: raise
          /\ ~(attempt < max_retries - 1)
          /\ clean' = FALSE
          /\ caRaise
          /\ UNCHANGED <<apps, response, attempt, n503, slept>>
    /\ UNCHANGED <<fileVars, ufVars, fuVars>>
    /\ UNCHANGED <<encVars, cvCount, calls, app_info, existing_app, patches,
                   before, prevCall>>

\* lines 179-190: after the loop
ca_after ==
    /\ UNCHANGED otherVars
    /\ slept' = NoSleep   \* the loop is over: no sleep is pending
    /\ NoCall
    /\ pc = "ca_after"
    /\ \/ \* response was never assigned (UnboundLocalError), or is not ok,
          \* or its body has no id field
          /\ response.src = "unbound" \/ ~response.ok \/ ~HasId(response)
          /\ caRaise
       \/ \* return result
          /\ response.src # "unbound" /\ response.ok /\ HasId(response)
          /\ app' = Body(response)
          /\ stage' = "created"
          /\ caResult' = "returned"
          /\ pc' = "idle"
    /\ UNCHANGED <<fileVars, ufVars, fuVars>>
    /\ UNCHANGED <<encVars, backendVars, calls, app_info, response, attempt,
                   existing_app, posts, patches, n503, clean,
                   before, prevCall>>

-----------------------------------------------------------------------------
(* encrypt_file in the pipeline: the files by their sizes *)

MiB == 1024 * 1024
\* line 313: block_size = 4 * 1024 * 1024
BlockSize == 4 * 1024 * 1024

\* the sizes of the file the caller publishes: empty, filling one block
\* exactly once encrypted, one byte more, and 10 MiB
FileSizes == {0, BlockSize - 48, BlockSize - 47, 10 * MiB}

\* a slip: the file holds the ciphertext only
EncryptedSize_NoHeader(data_size) == data_size + PaddingSize(data_size)

\* lines 212-226: the size of the file encrypt_file writes
EncryptedSize(data_size) ==
    MacLen + IvLen + data_size + PaddingSize(data_size)

\* line 18 of upload_example.py: encryption_info = uploader.encrypt_file(path)
encrypt_file_call ==
    /\ UNCHANGED otherVars
    /\ NoCall
    /\ pc = "idle"
    /\ stage = "created"
    /\ \E size \in FileSizes, seed \in Seeds :
        /\ plainSize' = size
        /\ binSize' = EncryptedSize(size)
        /\ manifest' = seed
    /\ stage' = "encrypted"
    /\ ResetCa
    /\ UNCHANGED <<encVars, backendVars, pc, calls, app, ufVars, fuVars>>

-----------------------------------------------------------------------------
(* upload_file *)

Uris == {"uriA", "uriB"}

\* "block-%04d" % n as ASCII codes
RECURSIVE Digits(_)
Digits(n) == IF n < 10 THEN <<48 + n>> ELSE Digits(n \div 10) \o <<48 + (n % 10)>>
\* a slip: the index is written without padding
Format04d_NoPad(n) == Digits(n)

Format04d(n) ==
    LET d == Digits(n) IN IF Len(d) < 4 THEN Repeat(48, 4 - Len(d)) \o d ELSE d

\* line 324: block_id
BlockId(n) == b64encode(<<98, 108, 111, 99, 107, 45>> \o Format04d(n))

\* a slip: the newest id is put first
AddBlockId_Front(list, id) == <<id>> \o list

\* line 325: blocks.append(block_id)
AddBlockId(list, id) == Append(list, id)

\* a slip: the file entry id is returned
ReturnedId_File(cv, cf) == cf

\* line 435: return content_version['id']
ReturnedId(cv, cf) == cv

\* the file status the backend reports: uploadState and azureStorageUri
UploadStates ==
    {"azureStorageUriRequestPending", "azureStorageUriRequestSuccess",
     "commitFilePending", "commitFileSuccess", "commitFileFailed",
     "failed", "error"}
Status(st, uri) == [uploadState |-> st, azureStorageUri |-> uri]
NoStatus == Status("", "")
StatusReads == [uploadState : UploadStates, azureStorageUri : {""} \cup Uris]

\* a slip: the URI of the body is taken whatever the state
UriFrom_AnyState(s, old) == s.azureStorageUri

\* lines 292-293: file_uri after one status read
UriFrom(s, old) ==
    IF s.uploadState = "azureStorageUriRequestSuccess"
    THEN s.azureStorageUri ELSE old

\* lines 295: elif status.get('uploadState') in ['failed', 'error']
UriFailure(st) == st \in {"failed", "error"}

\* a slip: a pending commit counts as done
CommitSuccess_Pending(st) == st \in {"commitFileSuccess", "commitFilePending"}

\* line 418: if status.get('uploadState') == 'commitFileSuccess'
CommitSuccess(st) == st = "commitFileSuccess"

\* line 422: if status.get('uploadState') == 'commitFileFailed'
CommitFailure(st) == st = "commitFileFailed"

\* a slip: the last status read is not made
PollContinues_OneLess(n) == n < max_attempts - 1

\* a slip: one status read too many
PollContinues_OneMore(n) == n <= max_attempts

\* lines 286 and 410: attempt < max_attempts, for attempt in range(max_attempts)
PollContinues(n) == n < max_attempts

\* a slip: a short block ends the loop
EndOfFile_Early(n) == n < BlockSize

\* line 320: if not block_data
EndOfFile(n) == n = 0

\* a slip: the last attempt is one later
LastAttempt_Late(r) == r = block_retries

\* lines 353 and 357: if retry == max_retries - 1
LastAttempt(r) == r = block_retries - 1

\* a slip: a block index is skipped
NextBlock_Skip(n) == n + 2

\* line 361: block_num += 1
NextBlock(n) == n + 1

\* a slip: the commit call carries a manifest made anew
CommitPayload_Regenerated(info) == 136 - info

\* line 395: json={"fileEncryptionInfo": encryption_info}
CommitPayload(info) == info

\* a slip: one byte less than the block size is read
ReadLen_Short(remaining) == Min(BlockSize - 1, remaining)

\* line 319: len(f.read(block_size)) with that many bytes left in the file
ReadLen(remaining) == Min(BlockSize, remaining)

\* any exception inside upload_file is re-raised (line 437) and ends the script
ufRaise(why) ==
    /\ pc' = "failed"
    /\ ufResult' = "raised"
    /\ ufError' = why

\* line 20 of upload_example.py: the caller calls upload_file
upload_file_call ==
    /\ UNCHANGED otherVars
    /\ NoCall
    /\ pc = "idle"
    /\ stage = "encrypted"
    /\ pc' = "uf_cv"
    /\ ufResult' = "running"
    /\ UNCHANGED <<encVars, backendVars, stage, calls, app, caVars, fileVars,
                   content_version, content_file, fileEntry, file_uri,
                   ufAttempt, offset, block_num, block_len, retry, blocks,
                   uploaded, blockList, listCalls, commitCalls, commitInfo,
                   content_version_id, ufHist, fuVars>>

\* lines 254-259: create the content version
uf_cv ==
    /\ UNCHANGED otherVars
    /\ Call("backend", GraphHeaders(headers))
    /\ pc = "uf_cv"
    /\ \/ \* the body has an id
          /\ cvCount' = cvCount + 1
          /\ content_version' = cvCount + 1
          /\ pc' = "uf_file"
          /\ UNCHANGED <<ufResult, ufError>>
       \/ \* an error body (KeyError), or the request raises
          /\ ufRaise("request")
          /\ UNCHANGED <<cvCount, content_version>>
    /\ UNCHANGED <<encVars, apps, stage, calls, app, caVars, fileVars,
                   content_file, fileEntry, file_uri, ufAttempt, offset,
                   block_num, block_len, retry, blocks, uploaded, blockList,
                   listCalls, commitCalls, commitInfo, content_version_id,
                   status, reads, readyUri, blockPuts, inFlight, fuVars>>

\* lines 261-278: create the file entry; its id is distinct from every
\* content version id
uf_file ==
    /\ UNCHANGED otherVars
    /\ Call("backend", GraphHeaders(headers))
    /\ pc = "uf_file"
    /\ fileEntry' = [size |-> plainSize, sizeEncrypted |-> binSize]
    /\ \/ /\ content_file' = 100 + content_version
          /\ pc' = "uf_wait_uri"
          /\ UNCHANGED <<ufResult, ufError>>
       \/ /\ ufRaise("request")
          /\ UNCHANGED content_file
    /\ UNCHANGED <<encVars, backendVars, stage, calls, app, caVars, fileVars,
                   content_version, file_uri, ufAttempt, offset,
                   block_num, block_len, retry, blocks, uploaded, blockList,
                   listCalls, commitCalls, commitInfo, content_version_id,
                   status, reads, readyUri, blockPuts, inFlight, fuVars>>

\* lines 286-309: one status read of the transfer-target wait, and the check
\* after the loop when this was the last one
uf_wait_uri ==
    /\ UNCHANGED otherVars
    /\ Call("backend", GraphHeaders(headers))
    /\ pc = "uf_wait_uri"
    /\ reads' = reads + 1
    /\ \/ \E s \in StatusReads :
            /\ status' = s
            /\ file_uri' = UriFrom(s, file_uri)
            /\ readyUri' =
                 IF s.uploadState = "azureStorageUriRequestSuccess"
                    /\ s.azureStorageUri # ""
                 THEN s.azureStorageUri ELSE readyUri
            /\ IF s.uploadState # "azureStorageUriRequestSuccess"
                  /\ UriFailure(s.uploadState)
               THEN \* line 301
                    /\ ufRaise("uri_failed")
                    /\ UNCHANGED ufAttempt
               ELSE IF UriFrom(s, file_uri) # ""
               THEN \* the loop ends; attempt is not read again before
                    \* line 410 rebinds it
                    /\ ufAttempt' = 0
                    /\ pc' = "uf_read"
                    /\ UNCHANGED <<ufResult, ufError>>
               ELSE \* sleep, attempt += 1; line 309 after the last one
                    /\ ufAttempt' = ufAttempt + 1
                    /\ IF PollContinues(ufAttempt + 1)
                       THEN UNCHANGED <<pc, ufResult, ufError>>
                       ELSE ufRaise("timeout_uri")
       \/ \* the read raises, or the body reports the state without the
          \* azureStorageUri key (KeyError)
          /\ ufRaise("request")
          /\ UNCHANGED <<status, file_uri, readyUri, ufAttempt>>
    /\ UNCHANGED <<encVars, backendVars, stage, calls, app, caVars, fileVars,
                   content_version, content_file, fileEntry, offset,
                   block_num, block_len, retry, blocks, uploaded, blockList,
                   listCalls, commitCalls, commitInfo, content_version_id,
                   blockPuts, inFlight, fuVars>>

\* lines 319-328: read the next block of the encrypted file; the counter of
\* the finished polling loop is dropped
uf_read ==
    /\ UNCHANGED otherVars
    /\ NoCall
    /\ pc = "uf_read"
    /\ reads' = 0
    /\ LET n == ReadLen(binSize - offset) IN
        IF EndOfFile(n)
        THEN /\ pc' = "uf_blocklist"
             /\ UNCHANGED <<block_len, blocks, retry, blockPuts>>
        ELSE /\ block_len' = n
             /\ blocks' = AddBlockId(blocks, BlockId(block_num))
             /\ retry' = 0
             /\ blockPuts' = 0
             /\ pc' = "uf_put"
    /\ UNCHANGED <<encVars, backendVars, stage, calls, app, caVars, fileVars,
                   content_version, content_file, fileEntry, file_uri,
                   ufAttempt, offset, block_num, uploaded, blockList,
                   listCalls, commitCalls, commitInfo, ufResult,
                   content_version_id, status, readyUri, inFlight, ufError,
                   fuVars>>

\* lines 331-340: requests.put is called for the block
uf_put ==
    /\ UNCHANGED otherVars
    /\ Call("transferTarget", BlockHeaders)
    /\ pc = "uf_put"
    /\ inFlight' = inFlight \cup
            {[index |-> block_num, id |-> BlockId(block_num),
              size |-> block_len, uri |-> file_uri]}
    /\ blockPuts' = blockPuts + 1
    /\ pc' = "uf_put_done"
    /\ UNCHANGED <<encVars, backendVars, stage, calls, app, caVars, fileVars,
                   content_version, content_file, fileEntry, file_uri,
                   ufAttempt, offset, block_num, block_len, retry, blocks,
                   uploaded, blockList, listCalls, commitCalls, commitInfo,
                   ufResult, content_version_id, status, reads, readyUri,
                   ufError, fuVars>>

\* lines 342-361: requests.put returns or raises
uf_put_done ==
    /\ UNCHANGED otherVars
    /\ NoCall
    /\ pc = "uf_put_done"
    /\ \E req \in inFlight :
        /\ inFlight' = inFlight \ {req}
        /\ \/ \* upload_response.ok: break, block_num += 1
              /\ uploaded' = Append(uploaded, req)
              /\ block_num' = NextBlock(block_num)
              /\ offset' = offset + block_len
              /\ pc' = "uf_read"
              /\ UNCHANGED <<retry, ufResult, ufError>>
           \/ \* a failure status or an exception, not on the last attempt
              /\ ~LastAttempt(retry)
              /\ retry' = retry + 1
              /\ pc' = "uf_put"
              /\ UNCHANGED <<uploaded, block_num, offset, ufResult, ufError>>
           \/ \* a failure status or an exception on the last attempt
              /\ LastAttempt(retry)
              /\ ufRaise("block")
              /\ UNCHANGED <<uploaded, block_num, offset, retry>>
    /\ UNCHANGED <<encVars, backendVars, stage, calls, app, caVars, fileVars,
                   content_version, content_file, fileEntry, file_uri,
                   ufAttempt, block_len, blocks, blockList,
                   listCalls, commitCalls, commitInfo, content_version_id,
                   status, reads, readyUri, blockPuts, fuVars>>

\* lines 363-388: the block-list call
uf_blocklist ==
    /\ UNCHANGED otherVars
    /\ Call("transferTarget", BlockListHeaders)
    /\ pc = "uf_blocklist"
    /\ blockList' = blocks
    /\ listCalls' = listCalls + 1
    /\ \/ /\ pc' = "uf_commit"
          /\ UNCHANGED <<ufResult, ufError>>
       \/ \* not ok (line 386), or the request raises
          ufRaise("blocklist")
    /\ UNCHANGED <<encVars, backendVars, stage, calls, app, caVars, fileVars,
                   content_version, content_file, fileEntry, file_uri,
                   ufAttempt, offset, block_num, block_len, retry, blocks,
                   uploaded, commitCalls, commitInfo, content_version_id,
                   status, reads, readyUri, blockPuts, inFlight, fuVars>>

\* lines 390-405: the commit call
uf_commit ==
    /\ UNCHANGED otherVars
    /\ Call("backend", GraphHeaders(headers))
    /\ pc = "uf_commit"
    /\ commitInfo' = CommitPayload(manifest)
    /\ commitCalls' = commitCalls + 1
    /\ ufAttempt' = 0
    /\ \/ /\ pc' = "uf_wait_commit"
          /\ UNCHANGED <<ufResult, ufError>>
       \/ \* not ok (line 404), or the request raises
          ufRaise("commit_request")
    /\ UNCHANGED <<encVars, backendVars, stage, calls, app, caVars, fileVars,
                   content_version, content_file, fileEntry, file_uri,
                   offset, block_num, block_len, retry, blocks,
                   uploaded, blockList, listCalls, content_version_id,
                   status, reads, readyUri, blockPuts, inFlight, fuVars>>

\* lines 410-435: one status read of the commit wait
uf_wait_commit ==
    /\ UNCHANGED otherVars
    /\ Call("backend", GraphHeaders(headers))
    /\ pc = "uf_wait_commit"
    /\ reads' = reads + 1
    /\ \/ \E st \in UploadStates :
            /\ status' = Status(st, "")
            /\ IF CommitSuccess(st)
               THEN \* break, return the content version id
                    /\ content_version_id' =
                            ReturnedId(content_version, content_file)
                    /\ ufResult' = "returned"
                    /\ stage' = "uploaded"
                    /\ pc' = "idle"
                    /\ UNCHANGED <<ufAttempt, ufError>>
               ELSE IF CommitFailure(st)
               THEN \* line 427
                    /\ ufRaise("commit_failed")
                    /\ UNCHANGED <<content_version_id, stage, ufAttempt>>
               ELSE IF PollContinues(ufAttempt + 1)
               THEN \* any other state, not on the last attempt: sleep
                    /\ ufAttempt' = ufAttempt + 1
                    /\ UNCHANGED <<content_version_id, stage, pc, ufResult,
                                   ufError>>
               ELSE \* any other state on the last attempt: line 433
                    /\ ufRaise("timeout_commit")
                    /\ UNCHANGED <<content_version_id, stage, ufAttempt>>
       \/ \* the read raises
          /\ ufRaise("request")
          /\ UNCHANGED <<status, content_version_id, stage, ufAttempt>>
    /\ UNCHANGED <<encVars, backendVars, calls, app, caVars, fileVars,
                   content_version, content_file, fileEntry, file_uri,
                   offset, block_num, block_len, retry, blocks,
                   uploaded, blockList, listCalls, commitCalls, commitInfo,
                   readyUri, blockPuts, inFlight, fuVars>>

-----------------------------------------------------------------------------
(* finalize_upload and add_app_logo *)

\* a status read or an error body: a JSON object with none of the fields
NoFields == Rec(0, "", 0, 0)

\* a slip: the record is replaced by the payload's committedContentVersion
ApplyFinalize_Wholesale(id, cv, cur) ==
    [apps EXCEPT ![id] = Rec(id, "", 0, cv)]

\* lines 498-510 and the PATCH: committedContentVersion is set, and each
\* preserved field the current record has is written back with its value
ApplyFinalize(id, cv, cur) ==
    IF cur = NoFields
    THEN [apps EXCEPT ![id].committedContentVersion = cv]
    ELSE [apps EXCEPT ![id].committedContentVersion = cv,
                      ![id].displayName = cur.displayName,
                      ![id].versionNumber = cur.versionNumber]

fuRaise ==
    /\ pc' = "failed"
    /\ fuResult' = "raised"

\* line 21 of upload_example.py: finalize_upload(app['id'], app_type, id)
finalize_upload_call ==
    /\ UNCHANGED otherVars
    /\ NoCall
    /\ pc = "idle"
    /\ stage = "uploaded"
    /\ pc' = "fu_get"
    /\ fuResult' = "running"
    /\ ResetUfLocals
    /\ UNCHANGED <<encVars, backendVars, stage, calls, app, caVars, fileVars,
                   content_version, ufResult, content_version_id, ufError,
                   current_app, fuStatus, patchedId, logoCalls>>

\* lines 490-493: read the current record
fu_get ==
    /\ UNCHANGED otherVars
    /\ Call("backend", GraphHeaders(headers))
    /\ pc = "fu_get"
    /\ \/ /\ current_app' = apps[app.id]
          /\ pc' = "fu_patch"
          /\ UNCHANGED fuResult
       \/ \* an error body: a JSON object without the fields
          /\ current_app' = NoFields
          /\ pc' = "fu_patch"
          /\ UNCHANGED fuResult
       \/ \* the request raises, or the body is not JSON
          /\ fuRaise
          /\ UNCHANGED current_app
    /\ UNCHANGED <<encVars, backendVars, stage, calls, app, caVars, fileVars,
                   ufVars, fuStatus, patchedId, logoCalls>>

\* lines 498-530: the finalize PATCH, then current_app['displayName']
fu_patch ==
    /\ UNCHANGED otherVars
    /\ Call("backend", GraphHeaders(headers))
    /\ pc = "fu_patch"
    /\ \/ \* response.ok, 204 or 200
          /\ \E st \in {200, 204} : fuStatus' = st
          /\ apps' = ApplyFinalize(app.id, content_version_id, current_app)
          /\ patchedId' = app.id
          /\ IF current_app = NoFields
             THEN fuRaise       \* KeyError: 'displayName'
             ELSE pc' = "fu_logo" /\ UNCHANGED fuResult
       \/ \* the PATCH is rejected or raises
          /\ fuRaise
          /\ UNCHANGED <<apps, fuStatus, patchedId>>
    /\ UNCHANGED <<encVars, cvCount, stage, calls, app, caVars, fileVars,
                   ufVars, current_app, logoCalls>>

\* lines 439-484: add_app_logo. The module defines no logger, so every use
\* of it raises NameError, also inside the except clause of line 483.
fu_logo ==
    /\ UNCHANGED otherVars
    /\ pc = "fu_logo"
    /\ \/ \* no logo file: print and return
          /\ pc' = "fu_return"
          /\ NoCall
          /\ UNCHANGED <<logoCalls, fuResult>>
       \/ \* the logo PATCH is issued (accepted or rejected): logger.info or
          \* logger.warning raises NameError, and so does line 484
          /\ logoCalls' = logoCalls + 1
          /\ Call("backend", GraphHeaders(headers))
          /\ fuRaise
       \/ \* reading the logo raises: line 484 raises NameError
          /\ fuRaise
          /\ NoCall
          /\ UNCHANGED logoCalls
    /\ UNCHANGED <<encVars, backendVars, stage, calls, app, caVars, fileVars,
                   ufVars, current_app, fuStatus, patchedId>>

\* lines 532-538: return True, or the JSON body
fu_return ==
    /\ UNCHANGED otherVars
    /\ NoCall
    /\ pc = "fu_return"
    /\ \/ /\ pc' = "done"
          /\ stage' = "finalized"
          /\ fuResult' = "returned"
       \/ \* 200 with a body that is not JSON
          /\ fuStatus = 200
          /\ fuRaise
          /\ UNCHANGED stage
    /\ UNCHANGED <<encVars, backendVars, calls, app, caVars, fileVars,
                   ufVars, current_app, fuStatus, patchedId, logoCalls>>

-----------------------------------------------------------------------------
(* The specifications *)

InitEncVars ==
    /\ epc = "start"
    /\ plainFile \in Plaintexts
    /\ binFile = <<>>
    /\ file_data = <<>>
    /\ encryption_info = NoManifest
    /\ file_body = NoBody

InitPipeVars ==
    /\ apps \in InitialBackends
    /\ cvCount = 0
    /\ pc = "start"
    /\ stage = "none"
    /\ calls = 0
    /\ app = NoApp
    /\ app_info = NoInfo
    /\ response = Unbound
    /\ attempt = 0
    /\ existing_app = NoApp
    /\ caResult = "none"
    /\ posts = 0 /\ patches = 0 /\ n503 = 0
    /\ clean = TRUE
    /\ before = 0
    /\ prevCall = NoPrev
    /\ slept = [seconds |-> 0, attempt |-> -1, header |-> <<>>]
    /\ plainSize = 0
    /\ binSize = -1
    /\ manifest = NoSeed
    /\ content_version = 0
    /\ content_file = 0
    /\ fileEntry = NoEntry
    /\ file_uri = ""
    /\ ufAttempt = 0
    /\ offset = 0
    /\ block_num = 0
    /\ block_len = 0
    /\ retry = 0
    /\ blocks = <<>>
    /\ uploaded = <<>>
    /\ blockList = <<>>
    /\ listCalls = 0
    /\ commitCalls = 0
    /\ commitInfo = NoSeed
    /\ ufResult = "none"
    /\ content_version_id = 0
    /\ status = NoStatus
    /\ reads = 0
    /\ readyUri = ""
    /\ blockPuts = 0
    /\ inFlight = {}
    /\ ufError = "none"
    /\ current_app = NoApp
    /\ fuStatus = 0
    /\ patchedId = 0
    /\ logoCalls = 0
    /\ fuResult = "none"
    /\ access_token \in Tokens
    /\ headers = InitHeaders(access_token)
    /\ sent = {}

\* outside SpecIds no block identifier is made on its own
InitIdVars ==
    /\ idx = <<0, 0>>
    /\ ids = <<>>
    /\ putIds = <<>>

\* outside SpecSync no check is made: no stored state, no local file
NoState == [commit_hash |-> 0, apps |-> {}, last_check |-> 0]
NoCheck == [outcome |-> "none", before |-> NoState]

InitSyncVars ==
    /\ repo = [sha |-> 0, apps |-> {}]
    /\ last_check_file = NoState
    /\ files = {}
    /\ added_apps = {}
    /\ lastCheck = NoCheck
    /\ checks = 0

\* outside SpecVersions no version is compared
InitVersionVars ==
    /\ github_version = <<>>
    /\ intune_version = <<>>
    /\ newer = <<>>

InitOtherVars == InitIdVars /\ InitSyncVars /\ InitVersionVars

\* SpecEnc: one file is encrypted; the backend is empty and never called
InitEnc == InitEncVars /\ InitPipeVars /\ InitOtherVars /\ apps = <<>>

NextEnc == encrypt_file_bytes \/ build_file_body

SpecEnc == InitEnc /\ [][NextEnc]_vars

\* in Spec and SpecCreate the byte-level file is the empty one, never written
Init == InitPipeVars /\ InitEncVars /\ InitOtherVars /\ plainFile = <<>>

\* SpecCreate: a caller that calls create_app up to MaxCalls times in a row
NextCreate ==
    \/ create_app_call \/ ca_lookup \/ ca_patch \/ ca_post \/ ca_after

SpecCreate == Init /\ [][NextCreate]_vars

\* Spec: one run of src/upload_example.py
run_create_app == calls = 0 /\ create_app_call

Next ==
    \/ run_create_app \/ ca_lookup \/ ca_patch \/ ca_post \/ ca_after
    \/ encrypt_file_call
    \/ upload_file_call \/ uf_cv \/ uf_file \/ uf_wait_uri \/ uf_read
    \/ uf_put \/ uf_put_done \/ uf_blocklist \/ uf_commit \/ uf_wait_commit
    \/ finalize_upload_call \/ fu_get \/ fu_patch \/ fu_logo \/ fu_return

Spec == Init /\ [][Next]_vars

\* SpecLive: upload_file from the state in which upload_example.py calls it
\* (create_app has returned the record, encrypt_file the manifest), against a
\* backend that answers every request, rejects none but block PUTs, stores
\* each block on its last attempt at the latest, and reports the transfer
\* target and the commit success on the last status read at the latest
InitLive ==
    /\ apps = <<Rec(1, "Firefox", NewVersion, 0)>>
    /\ cvCount = 0
    /\ pc = "idle"
    /\ stage = "encrypted"
    /\ calls = 1
    /\ app = Rec(1, "Firefox", NewVersion, 0)
    /\ app_info = NoInfo
    /\ response = Unbound
    /\ attempt = 0
    /\ existing_app = NoApp
    /\ caResult = "none"
    /\ posts = 0 /\ patches = 0 /\ n503 = 0
    /\ clean = TRUE
    /\ before = 0
    /\ prevCall = NoPrev
    /\ slept = [seconds |-> 0, attempt |-> -1, header |-> <<>>]
    /\ plainSize \in FileSizes
    /\ binSize = EncryptedSize(plainSize)
    /\ manifest \in Seeds
    /\ content_version = 0
    /\ content_file = 0
    /\ fileEntry = NoEntry
    /\ file_uri = ""
    /\ ufAttempt = 0
    /\ offset = 0
    /\ block_num = 0
    /\ block_len = 0
    /\ retry = 0
    /\ blocks = <<>>
    /\ uploaded = <<>>
    /\ blockList = <<>>
    /\ listCalls = 0
    /\ commitCalls = 0
    /\ commitInfo = NoSeed
    /\ ufResult = "none"
    /\ content_version_id = 0
    /\ status = NoStatus
    /\ reads = 0
    /\ readyUri = ""
    /\ blockPuts = 0
    /\ inFlight = {}
    /\ ufError = "none"
    /\ current_app = NoApp
    /\ fuStatus = 0
    /\ patchedId = 0
    /\ logoCalls = 0
    /\ fuResult = "none"
    /\ access_token = "tokenA"
    /\ headers = InitHeaders(access_token)
    /\ sent = {[target |-> "backend", credential |-> Bearer("tokenA")]}
    /\ InitEncVars /\ InitOtherVars /\ plainFile = <<>>

\* what the backend does in this step, whatever upload_file makes of it:
\* the request is answered and accepted
Accepted(rejection) == ufError' \notin {"request", rejection}

\* the status the backend reported in this step is no failure state
NoFailureReported ==
    status'.uploadState \notin {"failed", "error", "commitFileFailed"}

live_cv == uf_cv /\ Accepted("request")
live_file == uf_file /\ Accepted("request")
live_wait_uri ==
    /\ uf_wait_uri
    /\ Accepted("request")
    /\ NoFailureReported
    /\ reads' = max_attempts =>
        /\ status'.uploadState = "azureStorageUriRequestSuccess"
        /\ status'.azureStorageUri # ""
live_put_done ==
    /\ uf_put_done
    /\ blockPuts = block_retries => uploaded' # uploaded
live_blocklist == uf_blocklist /\ Accepted("blocklist")
live_commit == uf_commit /\ Accepted("commit_request")
live_wait_commit ==
    /\ uf_wait_commit
    /\ Accepted("request")
    /\ NoFailureReported
    /\ reads' = max_attempts => status'.uploadState = "commitFileSuccess"

NextLive ==
    \/ upload_file_call \/ live_cv \/ live_file \/ live_wait_uri
    \/ uf_read \/ uf_put \/ live_put_done \/ live_blocklist \/ live_commit
    \/ live_wait_commit

\* the interpreter always runs the next statement, and each request and each
\* sleep ends
SpecLive == InitLive /\ [][NextLive]_vars /\ WF_vars(NextLive)

\* SpecIds: the block identifier of line 324 for two block indexes, and the
\* block URI of line 331 built for each attempt of the first
BlockIndexes ==
    (0..9) \cup {99, 100, 999, 1000, 9999, 10000, 10001, 99999, 100000,
                 999999, 1000000, 1000001}

InitIds ==
    /\ InitPipeVars /\ InitEncVars
    /\ plainFile = <<>> /\ apps = <<>> /\ access_token = "tokenA"
    /\ InitSyncVars /\ InitVersionVars
    /\ idx \in BlockIndexes \X BlockIndexes
    /\ ids = <<>>
    /\ putIds = <<>>

\* line 324: block_id = b64encode(f"block-{block_num:04d}".encode()).decode()
make_block_id ==
    /\ ids = <<>>
    /\ ids' = <<BlockId(idx[1]), BlockId(idx[2])>>
    /\ UNCHANGED <<idx, putIds>>
    /\ UNCHANGED <<pipelineVars, syncVars, versionVars>>

\* line 331: block_uri = f"{file_uri}&comp=block&blockid={block_id}", once
\* per attempt
make_block_uri ==
    /\ ids # <<>>
    /\ Len(putIds) < block_retries
    /\ putIds' = Append(putIds, ids[1])
    /\ UNCHANGED <<idx, ids>>
    /\ UNCHANGED <<pipelineVars, syncVars, versionVars>>

NextIds == make_block_id \/ make_block_uri

SpecIds == InitIds /\ [][NextIds]_vars

-----------------------------------------------------------------------------
(* GitHubSync.check_for_updates (src/github_sync.py) *)

AppNames == {"firefox", "slack"}

\* the local paths check_for_updates writes
AppFile(name) == <<"Apps", name>>
LogoFile(name) == <<"Logos", name>>
SupportedAppsFile == <<"supported_apps.json", "">>

\* what the download of supported_apps.json gives: nothing (a failed request),
\* the object of the repository, or JSON that is not an object
ListAnswers == {"none", "dict", "malformed"}

\* lines 114-118: the state check number n saves
NewState(latest_hash, new_apps, n) ==
    [commit_hash |-> latest_hash, apps |-> new_apps, last_check |-> n]

\* a return [] before anything is written
ReturnsNothing(outcome) ==
    /\ added_apps' = {}
    /\ lastCheck' = [outcome |-> outcome, before |-> last_check_file]
    /\ UNCHANGED <<last_check_file, files>>

\* lines 73-124, with the outcome of every request and every write drawn
check_for_updates ==
    /\ checks < MaxChecks
    /\ checks' = checks + 1
    /\ UNCHANGED <<repo, pipelineVars, idVars, versionVars>>
    /\ \E hashOk \in BOOLEAN, readable \in BOOLEAN, answer \in ListAnswers :
        LET latest_hash == IF hashOk THEN repo.sha ELSE 0
            stored_state == IF readable THEN last_check_file ELSE NoState
            stored_hash == stored_state.commit_hash
            current_apps == stored_state.apps
            new_apps == repo.apps
            added == new_apps \ current_apps
        IN
        IF latest_hash = 0
        THEN \* lines 78-79
             ReturnsNothing("nohash")
        ELSE IF stored_hash = latest_hash
        THEN \* lines 86-88
             ReturnsNothing("same")
        ELSE IF answer = "none" \/ new_apps = {}
        THEN \* lines 93-94
             ReturnsNothing("nolist")
        ELSE IF answer = "malformed"
        THEN \* line 96 raises, lines 122-124
             ReturnsNothing("error")
        ELSE \* lines 97-120; each download and each write may fail, and a
             \* failure is logged and passed over
             \E jsons \in SUBSET added, logos \in SUBSET added,
                listSaved \in BOOLEAN, stateSaved \in BOOLEAN :
                 /\ files' = files
                        \cup {AppFile(name) : name \in jsons}
                        \cup {LogoFile(name) : name \in logos}
                        \cup (IF added # {} /\ listSaved
                              THEN {SupportedAppsFile} ELSE {})
                 /\ last_check_file' =
                        IF stateSaved
                        THEN NewState(latest_hash, new_apps, checks + 1)
                        ELSE last_check_file
                 /\ added_apps' = added
                 /\ lastCheck' = [outcome |-> "done",
                                  before |-> last_check_file]

\* the repository receives a commit
push ==
    /\ repo.sha < MaxCommits
    /\ \E listed \in SUBSET AppNames :
        repo' = [sha |-> repo.sha + 1, apps |-> listed]
    /\ UNCHANGED <<last_check_file, files, added_apps, lastCheck, checks>>
    /\ UNCHANGED <<pipelineVars, idVars, versionVars>>

\* SpecSync: a fresh installation checks a repository that changes
InitSync ==
    /\ InitPipeVars /\ InitEncVars /\ InitIdVars /\ InitVersionVars
    /\ plainFile = <<>> /\ apps = <<>> /\ access_token = "tokenA"
    /\ repo \in [sha : {1}, apps : SUBSET AppNames]
    /\ last_check_file = NoState
    /\ files = {}
    /\ added_apps = {}
    /\ lastCheck = NoCheck
    /\ checks = 0

NextSync == check_for_updates \/ push

SpecSync == InitSync /\ [][NextSync]_vars

-----------------------------------------------------------------------------
(* is_newer_version (src/app.py); strings are sequences of ASCII codes *)

Hyphen == 45
Comma == 44
Dot == 46

\* 'Not in Intune'
NotInIntune == <<78, 111, 116, 32, 105, 110, 32, 73, 110, 116, 117, 110, 101>>

\* text.split(sep)
RECURSIVE Split(_, _)
Split(text, sep) ==
    IF text = <<>> THEN << <<>> >>
    ELSE LET rest == Split(Tail(text), sep) IN
         IF Head(text) = sep THEN << <<>> >> \o rest
         ELSE << <<Head(text)>> \o rest[1] >> \o Tail(rest)

\* lines 63-65: parts.extend(['0'] * (max_length - len(parts)))
PadParts(parts, max_length) ==
    parts \o [i \in 1..(max_length - Len(parts)) |-> <<48>>]

\* lines 68-72: the first pair of components that differ decides; a component
\* int() rejects raises when the loop reaches it
RECURSIVE CompareMain(_, _, _)
CompareMain(gh_main, it_main, i) ==
    IF i > Len(gh_main) THEN "equal"
    ELSE LET gh_num == ParseInt(gh_main[i])
             it_num == ParseInt(it_main[i]) IN
         IF gh_num = -1 \/ it_num = -1 THEN "error"
         ELSE IF gh_num # it_num
              THEN IF gh_num > it_num THEN "greater" ELSE "less"
         ELSE CompareMain(gh_main, it_main, i + 1)

\* lines 44-84
is_newer_version(gh_text, it_text) ==
    IF it_text = NotInIntune THEN TRUE
    ELSE LET gh_version == Split(gh_text, Hyphen)[1]
             it_version == Split(it_text, Hyphen)[1]
             gh_version_parts == Split(gh_version, Comma)
             it_version_parts == Split(it_version, Comma)
             gh_split == Split(gh_version_parts[1], Dot)
             it_split == Split(it_version_parts[1], Dot)
             max_length == IF Len(gh_split) > Len(it_split)
                           THEN Len(gh_split) ELSE Len(it_split)
             main == CompareMain(PadParts(gh_split, max_length),
                                 PadParts(it_split, max_length), 1)
         IN
         IF main = "error" THEN FALSE          \* lines 82-84
         ELSE IF main # "equal" THEN main = "greater"
         ELSE IF Len(gh_version_parts) > 1 /\ Len(it_version_parts) > 1
              THEN LET gh_build == ParseInt(gh_version_parts[2])
                       it_build == ParseInt(it_version_parts[2]) IN
                   IF gh_build = -1 \/ it_build = -1 THEN FALSE
                   ELSE gh_build > it_build
         ELSE gh_text # it_text               \* line 81

\* the version strings compared
Versions ==
    { <<49>>,                                  \* 1
      <<49, 46, 48>>,                          \* 1.0
      <<49, 46, 48, 46, 48>>,                  \* 1.0.0
      <<49, 46, 49>>,                          \* 1.1
      <<49, 46, 57>>,                          \* 1.9
      <<49, 46, 49, 48>>,                      \* 1.10
      <<50, 46, 48>>,                          \* 2.0
      <<48, 49, 46, 48>>,                      \* 01.0
      <<49, 46, 48, 44, 53>>,                  \* 1.0,5
      <<49, 46, 48, 44, 54>>,                  \* 1.0,6
      <<49, 46, 48, 46, 48, 44, 53>>,          \* 1.0.0,5
      <<51, 46, 53, 46, 49, 44, 49, 54, 49, 48, 49>>,   \* 3.5.1,16101
      <<49, 46, 48, 45, 98, 101, 116, 97>>,    \* 1.0-beta
      <<49, 46, 120>>,                         \* 1.x
      NotInIntune }

\* SpecVersions: two version strings are compared, in both orders
InitVersions ==
    /\ InitPipeVars /\ InitEncVars /\ InitIdVars /\ InitSyncVars
    /\ plainFile = <<>> /\ apps = <<>> /\ access_token = "tokenA"
    /\ github_version \in Versions
    /\ intune_version \in Versions
    /\ newer = <<>>

compare_versions ==
    /\ newer = <<>>
    /\ newer' = <<is_newer_version(github_version, intune_version),
                  is_newer_version(intune_version, github_version)>>
    /\ UNCHANGED <<github_version, intune_version>>
    /\ UNCHANGED <<pipelineVars, idVars, syncVars>>

NextVersions == compare_versions

SpecVersions == InitVersions /\ [][NextVersions]_vars

-----------------------------------------------------------------------------
(* The receiving side: what the backend does with the file and the manifest *)

RECURSIVE b64decode(_)
b64decode(t) ==
    IF Len(t) < 4 THEN <<>>
    ELSE IF t[3] = 64 THEN
        <<(t[1] * 4) + (t[2] \div 16)>>
    ELSE IF t[4] = 64 THEN
        <<(t[1] * 4) + (t[2] \div 16), ((t[2] % 16) * 16) + (t[3] \div 4)>>
    ELSE
        <<(t[1] * 4) + (t[2] \div 16), ((t[2] % 16) * 16) + (t[3] \div 4),
          ((t[3] % 4) * 64) + t[4]>> \o b64decode(Drop(t, 4))

AesRotInv(i) == IF i = 1 THEN AesBlock ELSE i - 1
AesDecryptBlock(key, c) ==
    [i \in 1..AesBlock |->
        (c[AesRotInv(i)] + 512 - key[AesRotInv(i)] - key[AesRotInv(i) + AesBlock]) % 256]

RECURSIVE CbcDecrypt(_, _, _)
CbcDecrypt(key, prev, data) ==
    IF Len(data) < AesBlock THEN <<>>
    ELSE LET c == Take(data, AesBlock)
             x == AesDecryptBlock(key, c)
         IN  [j \in 1..AesBlock |-> Xor8(x[j], prev[j])]
                \o CbcDecrypt(key, c, Drop(data, AesBlock))

\* drop the last N bytes, N the value of the last byte; <<-1>> when there is
\* no last byte or fewer than N bytes
Invalid == <<-1>>
RemoveTrailingCount(d) ==
    IF Len(d) = 0 THEN Invalid
    ELSE IF d[Len(d)] > Len(d) THEN Invalid
    ELSE Take(d, Len(d) - d[Len(d)])

HeaderLen == MacLen + IvLen
Ciphertext == Drop(binFile, HeaderLen)
ManifestKey == b64decode(encryption_info.encryptionKey)
ManifestIv == b64decode(encryption_info.initializationVector)
Decrypted == CbcDecrypt(ManifestKey, ManifestIv, Ciphertext)

-----------------------------------------------------------------------------
(* Claims about encrypt_file (SpecEnc) *)

\* C1 (as stated): for every plaintext length, decrypting the ciphertext of the
\* encrypted file with the manifest's key and IV and removing the trailing
\* count padding gives back the plaintext.
C1_RoundTrip ==
    epc # "start" => RemoveTrailingCount(Decrypted) = plainFile

\* C2 (as stated): the plaintext of length L is padded with N bytes of value N,
\* N = 16 - (L mod 16), N = 16 when 16 divides L; the padded length is a
\* multiple of 16 and greater than L.
C2_PaddingAlwaysAdded ==
    epc # "start" =>
        LET L == Len(plainFile)
            N == AesBlock - (L % AesBlock)
        IN  /\ file_data = plainFile \o Repeat(N, N)
            /\ Len(file_data) % AesBlock = 0
            /\ Len(file_data) > L

\* C3: the encrypted file is mac (32 bytes), then the IV (16 bytes), then the
\* ciphertext of the padded plaintext, so it is 48 bytes longer than the padded
\* plaintext file_data; bytes 32..47 are the manifest's IV; the file entry
\* carries the length of the encrypted file as sizeEncrypted and the length of
\* the plaintext as size.
C3_FileLayout ==
    epc = "entry" =>
        /\ binFile = b64decode(encryption_info.mac) \o ManifestIv
                        \o CbcEncrypt(ManifestKey, ManifestIv, file_data)
        /\ Len(binFile) = 48 + Len(file_data)
        /\ SubSeq(binFile, 33, 48) = ManifestIv
        /\ file_body.sizeEncrypted = Len(binFile)
        /\ file_body.size = Len(plainFile)

C3_Witness ==
    /\ epc = "entry"
    /\ Len(plainFile) = 17
    /\ Len(binFile) = 80
    /\ file_body.sizeEncrypted = 80

\* C4: the first 32 bytes of the encrypted file are the manifest's mac, and
\* they are the HMAC-SHA-256, under the manifest's macKey, of the rest of the
\* file (IV and ciphertext).
C4_MacIntegrity ==
    epc # "start" =>
        /\ Take(binFile, 32) = b64decode(encryption_info.mac)
        /\ Take(binFile, 32) =
             HmacSha256(b64decode(encryption_info.macKey), Drop(binFile, 32))

C4_Witness ==
    /\ epc = "encrypted"
    /\ Len(binFile) > HeaderLen
    /\ Take(binFile, 32) # Repeat(0, 32)

-----------------------------------------------------------------------------
(* Claims about upload_file and the pipeline (Spec) *)

UploadedIds == [i \in 1..Len(uploaded) |-> uploaded[i].id]
UploadedSizes == [i \in 1..Len(uploaded) |-> uploaded[i].size]

\* C5: when the block-list call is issued, its list of block ids is the
\* sequence of ids of the blocks that were uploaded, in ascending block index
\* order from 0, with no id missing, repeated or reordered.
C5_BlockOrdering ==
    listCalls > 0 =>
        /\ blockList = UploadedIds
        /\ \A i \in 1..Len(uploaded) : uploaded[i].index = i - 1
        /\ \A i \in 1..Len(blockList) : blockList[i] = BlockId(i - 1)
        /\ \A i, j \in 1..Len(blockList) : i # j => blockList[i] # blockList[j]

C5_Witness ==
    /\ listCalls = 1
    /\ Len(blockList) = 3
    /\ Len(uploaded) = 3

\* every block of the encrypted file has been read and uploaded
BlocksDone == pc = "uf_blocklist" \/ listCalls > 0

\* C6 (as stated): a 10 MiB file is uploaded as exactly 3 blocks of 4 MiB,
\* 4 MiB and 2 MiB, in that order.
C6_TenMiB_AsStated ==
    (plainSize = 10 * MiB /\ BlocksDone) =>
        UploadedSizes = <<4 * MiB, 4 * MiB, 2 * MiB>>

\* C6 (amended): a 10 MiB file is uploaded as exactly 3 blocks of 4 MiB, 4 MiB
\* and 2 MiB + 48 bytes, in that order: the encrypted file carries the 32-byte
\* mac and the 16-byte IV before the ciphertext.
C6_TenMiB ==
    (plainSize = 10 * MiB /\ BlocksDone) =>
        UploadedSizes = <<4 * MiB, 4 * MiB, (2 * MiB) + 48>>

C6_Witness ==
    /\ plainSize = 10 * MiB
    /\ listCalls = 1
    /\ Len(uploaded) = 3
    /\ binSize = (10 * MiB) + 48

\* C7: when the pipeline completes without error, the record that
\* finalize_upload patched is the one create_app returned, and its
\* committedContentVersion is the id of the content version upload_file
\* created in this run.
C7_CommittedVersion ==
    pc = "done" =>
        /\ content_version > 0
        /\ app.id \in 1..Len(apps)
        /\ patchedId = app.id
        /\ apps[app.id].committedContentVersion = content_version

C7_Witness ==
    /\ pc = "done"
    /\ caResult = "none"
    /\ ufResult = "returned"
    /\ fuResult = "returned"
    /\ Len(apps) = 2
    /\ app.id = 1
    /\ apps[1].committedContentVersion = 1

\* C12: each polling loop of upload_file issues at most max_attempts status
\* reads; a loop is still polling only while it has issued fewer; when
\* max_attempts reads went by without the required state, upload_file has
\* raised the timeout of that loop and has not gone on: after the timeout of
\* the transfer-target wait no block was sent and no block-list or commit
\* call issued, after the timeout of the commit wait nothing was returned.
C12_PollingTimeout ==
    /\ reads <= max_attempts
    /\ pc \in {"uf_wait_uri", "uf_wait_commit"} => reads < max_attempts
    /\ ufError = "timeout_uri" =>
        /\ reads = max_attempts
        /\ pc = "failed" /\ ufResult = "raised"
        /\ file_uri = ""
        /\ uploaded = <<>> /\ blockPuts = 0 /\ inFlight = {}
        /\ listCalls = 0 /\ commitCalls = 0
    /\ ufError = "timeout_commit" =>
        /\ reads = max_attempts
        /\ pc = "failed" /\ ufResult = "raised"
        /\ stage = "encrypted"
        /\ content_version_id = 0
        /\ fuResult = "none"

C12_Witness ==
    /\ ufError = "timeout_commit"
    /\ reads = max_attempts
    /\ commitCalls = 1
    /\ status.uploadState = "commitFilePending"

\* upload_file is between the transfer-target wait and the commit wait
BlockPhase ==
    pc \in {"uf_read", "uf_put", "uf_put_done", "uf_blocklist", "uf_commit"}

\* C13: upload_file is past the transfer-target wait only when the last
\* status read of the wait reported azureStorageUriRequestSuccess with a
\* non-empty URI; no block PUT is issued before such a read, and every PUT,
\* answered or in flight, goes to the URI of that read.
C13_TransferTargetReady ==
    /\ BlockPhase =>
        /\ status.uploadState = "azureStorageUriRequestSuccess"
        /\ status.azureStorageUri # ""
        /\ readyUri = status.azureStorageUri
    /\ (blockPuts > 0 \/ uploaded # <<>> \/ inFlight # {}) => readyUri # ""
    /\ \A req \in inFlight : req.uri = readyUri
    /\ \A i \in 1..Len(uploaded) : uploaded[i].uri = readyUri

C13_Witness ==
    /\ pc = "uf_put_done"
    /\ Len(uploaded) = 2
    /\ readyUri = "uriB"
    /\ \E req \in inFlight : req.index = 2 /\ req.uri = "uriB"

\* status holds a read of the commit wait: the commit call was issued and
\* the loop after it has read at least once
CommitWaitRead == commitCalls > 0 /\ reads > 0

\* C14 (as stated): a status read of the commit wait that reports
\* commitFileFailed, failed or error makes upload_file raise at once, so that
\* no further status read follows it.
C14_CommitFailureImmediate ==
    (CommitWaitRead
        /\ status.uploadState \in {"commitFileFailed", "failed", "error"}) =>
            /\ ufResult = "raised"
            /\ pc = "failed"

\* C15 (as stated): a status read of the commit wait that shows the file back
\* in a transfer-target state makes upload_file raise a commit failure
\* instead of polling on.
C15_OutOfOrderFails ==
    (CommitWaitRead
        /\ status.uploadState \in {"azureStorageUriRequestPending",
                                   "azureStorageUriRequestSuccess"}) =>
            /\ ufResult = "raised"
            /\ ufError = "commit_failed"

\* C16: no block gets more than block_retries PUTs; when the last of them
\* failed too, upload_file has raised with no PUT in flight, no block-list
\* call and no commit call, and from then on it sends no PUT and issues
\* neither of those calls.
C16_BlockRetryBound ==
    /\ [](blockPuts <= block_retries)
    /\ [](ufError = "block" =>
            /\ blockPuts = block_retries
            /\ pc = "failed" /\ ufResult = "raised"
            /\ inFlight = {}
            /\ Len(uploaded) = block_num
            /\ listCalls = 0 /\ commitCalls = 0)
    /\ [][ufError = "block" =>
            UNCHANGED <<blockPuts, inFlight, uploaded, listCalls,
                        commitCalls>>]_vars

C16_Witness ==
    /\ ufError = "block"
    /\ blockPuts = block_retries
    /\ Len(uploaded) = 2
    /\ block_num = 2

\* the bytes of the encrypted file stored by the successful PUTs
RECURSIVE SumSizes(_)
SumSizes(seq) ==
    IF seq = <<>> THEN 0 ELSE seq[1].size + SumSizes(Tail(seq))

\* C17: upload_file issues the block-list call at most once, and only when
\* the successful PUTs cover the whole encrypted file, one per block id, with
\* none in flight; when that call fails upload_file has raised and has issued
\* no commit call; a commit call is never issued without it.
C17_BlockListOnce ==
    /\ listCalls <= 1
    /\ listCalls > 0 =>
        /\ inFlight = {}
        /\ SumSizes(uploaded) = binSize
        /\ Len(uploaded) = Len(blocks)
        /\ blockList = blocks
    /\ ufError = "blocklist" =>
        /\ listCalls = 1
        /\ commitCalls = 0
        /\ pc = "failed" /\ ufResult = "raised"
    /\ commitCalls > 0 => listCalls = 1

C17_Witness ==
    /\ pc = "uf_commit"
    /\ listCalls = 1
    /\ commitCalls = 0
    /\ UploadedSizes = <<BlockSize, 16>>
    /\ binSize = BlockSize + 16

\* C18: at most one block PUT is in flight; the stored blocks are blocks
\* 0, 1, 2, ... in that order; and a PUT in flight or about to be sent is for
\* the block right after the stored ones, so block i + 1 is first sent only
\* after a PUT of block i has succeeded.
C18_SequentialBlocks ==
    /\ Cardinality(inFlight) <= 1
    /\ \A i \in 1..Len(uploaded) : uploaded[i].index = i - 1
    /\ \A req \in inFlight : req.index = Len(uploaded)
    /\ pc \in {"uf_put", "uf_put_done"} => block_num = Len(uploaded)

C18_Witness ==
    /\ pc = "uf_put_done"
    /\ blockPuts = 1
    /\ Len(uploaded) = 1
    /\ \E req \in inFlight : req.index = 1

\* C19 (as stated): when the pipeline has ended, with success or with an
\* exception of any stage, the file file_path + ".bin" does not exist.
C19_EncryptedFileRemoved ==
    pc \in {"done", "failed"} => binSize = -1

\* C20 (as stated): once the finalize PATCH has succeeded, whatever
\* add_app_logo does (no logo file, logo PATCH accepted or rejected, an
\* error while reading or sending), finalize_upload goes on to its return
\* statements and does not raise.
C20_LogoBestEffort ==
    [][pc = "fu_logo" => (pc' = "fu_return" /\ fuResult' = "running")]_vars

\* C21: the step of finalize_upload that sends the finalize PATCH changes no
\* record of the backend except in committedContentVersion: the record keeps
\* its id, displayName and versionNumber, and no record is added or removed.
C21_FinalizePreservesFields ==
    [][pc = "fu_patch" =>
        /\ Len(apps') = Len(apps)
        /\ \A i \in 1..Len(apps) :
            /\ apps'[i].id = apps[i].id
            /\ apps'[i].displayName = apps[i].displayName
            /\ apps'[i].versionNumber = apps[i].versionNumber
            /\ i # app.id =>
                apps'[i].committedContentVersion =
                    apps[i].committedContentVersion]_vars

C21_Witness ==
    /\ pc = "fu_logo"
    /\ patchedId = 2
    /\ current_app = Rec(2, "Slack", NewVersion, 0)
    /\ apps[2] = Rec(2, "Slack", NewVersion, 1)
    /\ apps[1] = Rec(1, "Firefox", OldVersion, 0)

\* C22 (as stated): a backend call answered with a failure that is not a
\* retried 503 ends the pipeline: after a rejected lookup or update of
\* create_app no create POST is issued and create_app has raised; after a
\* current-record read without the record no finalize PATCH is issued; and
\* once a stage has raised, the pipeline is over.
C22_StageErrorFatal ==
    /\ (response.src \in {"lookup", "patch"} /\ ~response.ok) =>
            (pc = "failed" /\ caResult = "raised" /\ posts = 0)
    /\ (response.src = "post" /\ ~response.ok /\ response.status # 503) =>
            pc = "failed"
    /\ (fuResult = "running" /\ current_app = NoFields) =>
            pc \in {"fu_get", "failed"}
    /\ ("raised" \in {caResult, ufResult, fuResult}) => pc = "failed"

\* C23 (as stated): every request the pipeline has sent, to the backend or
\* to the transfer target, carried the bearer credential given at
\* construction, and self.headers still holds that credential.
C23_AsStated ==
    /\ headers = InitHeaders(access_token)
    /\ \A r \in sent : r.credential = Bearer(access_token)

\* C23 (amended): every request to the backend carried the bearer credential
\* given at construction, and self.headers still holds that credential; the
\* block PUTs and the block-list PUT to the transfer target carried no
\* Authorization header.
C23_BearerOnBackendCalls ==
    /\ headers = InitHeaders(access_token)
    /\ \A r \in sent :
        /\ r.target = "backend" => r.credential = Bearer(access_token)
        /\ r.target = "transferTarget" => r.credential = NoCredential

C23_Witness ==
    /\ pc = "done"
    /\ access_token = "tokenB"
    /\ sent = {[target |-> "backend", credential |-> Bearer("tokenB")],
               [target |-> "transferTarget", credential |-> NoCredential]}

\* C24: upload_file issues the commit call at most once, only after the
\* block-list call was issued and accepted, and with the manifest the caller
\* passed in, which no step of upload_file changes, retried blocks or not;
\* when the commit request is rejected upload_file has raised without a
\* single status read of the commit wait.
C24_CommitOnce ==
    /\ [](commitCalls <= 1)
    /\ [](commitCalls > 0 =>
            /\ listCalls = 1
            /\ ufError # "blocklist"
            /\ manifest \in Seeds
            /\ commitInfo = manifest)
    /\ [](pc = "uf_wait_commit" => commitCalls = 1)
    /\ [](ufError = "commit_request" =>
            /\ commitCalls = 1
            /\ pc = "failed" /\ ufResult = "raised"
            /\ reads = 0)
    /\ [][ufResult = "running" => manifest' = manifest]_vars

C24_Witness ==
    /\ pc = "uf_wait_commit"
    /\ commitCalls = 1
    /\ manifest = 131
    /\ commitInfo = 131
    /\ blockPuts = block_retries
    /\ Len(uploaded) = 3

CeilDiv(a, b) == (a + b - 1) \div b

\* C25: when every block of an encrypted file of L > 0 bytes has been
\* uploaded, the stored blocks are ceil(L / BlockSize) in number; each but
\* the last has BlockSize bytes, the last has the 1..BlockSize bytes that
\* remain, and the sizes add up to L.
C25_BlockCount ==
    (BlocksDone /\ binSize > 0) =>
        LET k == CeilDiv(binSize, BlockSize) IN
        /\ Len(uploaded) = k
        /\ \A i \in 1..(k - 1) : uploaded[i].size = BlockSize
        /\ uploaded[k].size = binSize - ((k - 1) * BlockSize)
        /\ uploaded[k].size \in 1..BlockSize
        /\ SumSizes(uploaded) = binSize

C25_Witness ==
    /\ pc = "uf_blocklist"
    /\ binSize = BlockSize
    /\ UploadedSizes = <<BlockSize>>

\* C28: when upload_file has returned, the commit call was issued and the
\* last status read, made after it, reported commitFileSuccess, and the value
\* returned is the id of the content version created in the invocation; the
\* caller holds an id only from a return, and when upload_file has raised it
\* holds none and the pipeline is over.
C28_ReturnOnlyAfterCommitSuccess ==
    /\ (ufResult = "returned" /\ fuResult = "none") =>
        /\ commitCalls = 1
        /\ reads > 0
        /\ status.uploadState = "commitFileSuccess"
        /\ content_version > 0
        /\ content_version_id = content_version
    /\ content_version_id # 0 => ufResult = "returned"
    /\ stage \in {"uploaded", "finalized"} => ufResult = "returned"
    /\ ufResult = "raised" =>
        /\ ufError # "none"
        /\ content_version_id = 0
        /\ stage = "encrypted"
        /\ pc = "failed"

C28_Witness ==
    /\ pc = "idle"
    /\ stage = "uploaded"
    /\ ufResult = "returned"
    /\ content_version_id = 1
    /\ reads = 2
    /\ status.uploadState = "commitFileSuccess"

-----------------------------------------------------------------------------
(* Claims about create_app (SpecCreate) *)

\* create_app has returned from the second of two calls in a row that had
\* updateExisting set and the same metadata, and no backend call of either
\* failed
TwoCleanUpdates ==
    /\ pc = "idle"
    /\ caResult = "returned"
    /\ app_info.updateExisting
    /\ prevCall.info = app_info
    /\ prevCall.clean
    /\ clean

\* C8 (as stated): from any backend state, two such calls leave exactly one
\* record with the display name; the second call issues a PATCH and no POST.
C8_AsStated ==
    TwoCleanUpdates =>
        /\ CountNamed(app_info.name) = 1
        /\ patches = 1
        /\ posts = 0

\* C8 (amended): the second call issues a PATCH and no POST and leaves the
\* number of records with the display name as it found it; when the backend
\* held at most one record with that name before the first call, it holds
\* exactly one after the second.
C8_Idempotent ==
    TwoCleanUpdates =>
        /\ patches = 1
        /\ posts = 0
        /\ CountNamed(app_info.name) = before
        /\ prevCall.before <= 1 => CountNamed(app_info.name) = 1

C8_Witness ==
    /\ TwoCleanUpdates
    /\ prevCall.before = 0
    /\ CountNamed(app_info.name) = 1
    /\ patches = 1

\* C9 (as stated): once the lookup of an updateExisting call has found a
\* record, the invocation issues no create POST, and the record it returns
\* has the id of the matched record.
C9_NoCreateAfterMatch ==
    existing_app # NoApp =>
        /\ posts = 0
        /\ caResult = "returned" => app.id = existing_app.id

\* C10: create_app issues at most max_retries create POSTs; if max_retries - 1
\* of them got a 503 and the last one succeeded, it returns the created
\* record; after max_retries 503 responses it issues no further POST and
\* fails.
CreatedOnLastAttempt ==
    /\ caResult \in {"returned", "raised"}
    /\ n503 = max_retries - 1
    /\ posts = max_retries
    /\ response.src = "post" /\ response.ok /\ response.id # 0

C10_BoundedRetry ==
    /\ posts <= max_retries
    /\ CreatedOnLastAttempt =>
        /\ caResult = "returned"
        /\ app.id = response.id
        /\ app = apps[response.id]
    /\ n503 = max_retries =>
        /\ pc \in {"ca_after", "failed"}
        /\ caResult \in {"running", "raised"}
        /\ posts = max_retries

C10_Witness ==
    /\ caResult = "returned"
    /\ n503 = max_retries - 1
    /\ posts = max_retries
    /\ app.id = Len(apps)

\* C11: a create response that is not a success and not a 503 ends the
\* invocation at once, whatever the attempt number: create_app has raised and
\* issues no create POST after it; and create_app never returns from a create
\* response whose body has no id field: it raises.
FatalCreateResponse ==
    response.src = "post" /\ ~response.ok /\ ~(response.status = 503)

CreateWithoutId ==
    response.src = "post" /\ response.ok /\ response.id = 0

C11_NonRetryableFatal ==
    /\ [](FatalCreateResponse => (caResult = "raised" /\ pc = "failed"))
    /\ [][FatalCreateResponse => posts' <= posts]_vars
    /\ []((CreateWithoutId /\ pc # "ca_after") => caResult = "raised")

C11_Witness ==
    /\ FatalCreateResponse
    /\ response.status = 500
    /\ attempt = max_retries - 1
    /\ posts = max_retries
    /\ caResult = "raised"

-----------------------------------------------------------------------------
(* Claims about the block identifiers (SpecIds) *)

-----------------------------------------------------------------------------
(* Claims about upload_file against a well-behaved backend (SpecLive) *)

\* C27: against a backend that creates the content version and the file
\* entry, reports the transfer target within max_attempts status reads,
\* stores every block within block_retries attempts, accepts the block-list
\* and the commit call and reports the commit success within max_attempts
\* status reads, upload_file eventually returns the id of the content version
\* it created.
C27_EventuallyReturns ==
    <>(/\ ufResult = "returned"
       /\ stage = "uploaded"
       /\ content_version > 0
       /\ content_version_id = content_version)

C27_Witness ==
    /\ ufResult = "returned"
    /\ content_version_id = content_version
    /\ reads = max_attempts
    /\ status.uploadState = "commitFileSuccess"
    /\ blockPuts = block_retries
    /\ Len(uploaded) = 3

-----------------------------------------------------------------------------
(* More claims about create_app (SpecCreate) *)

\* every create attempt of the invocation has been made and none of them
\* bound response: each timed out or failed to connect
NoCreateResponse ==
    /\ posts = max_retries
    /\ response.src # "post"
    /\ pc \notin {"ca_post", "ca_after"}

\* C29: when create_app has returned, the last response it holds is an
\* accepted update PATCH of the matched record, which it returned, or an
\* accepted create POST with an id, whose record it returned; and when every
\* create attempt ended without a response, create_app has raised, with and
\* without updateExisting, whatever the lookup or the update had answered.
C29_ReturnOnlyAfterWrite ==
    /\ caResult = "returned" =>
        \/ /\ response.src = "patch" /\ response.ok
           /\ patches = 1 /\ posts = 0
           /\ app = existing_app
        \/ /\ response.src = "post" /\ response.ok /\ response.id # 0
           /\ app = apps[response.id]
    /\ NoCreateResponse => caResult = "raised"

C29_Witness ==
    /\ NoCreateResponse
    /\ app_info.updateExisting
    /\ response.src = "lookup" /\ response.ok
    /\ attempt = max_retries
    /\ caResult = "raised"

-----------------------------------------------------------------------------
(* Claims about the delays of create_app (SpecCreate) *)

-----------------------------------------------------------------------------
(* Claims about the catalog sync (SpecSync) *)

-----------------------------------------------------------------------------
(* Claims about the version comparison (SpecVersions) *)

\* a version made of dot-separated numeric components, with an optional
\* comma and numeric build number
NumericVersion(text) ==
    LET parts == Split(text, Comma) IN
    /\ Len(parts) <= 2
    /\ \A c \in 1..Len(Split(parts[1], Dot)) :
           ParseInt(Split(parts[1], Dot)[c]) # -1
    /\ Len(parts) = 2 => ParseInt(parts[2]) # -1

====
